---- MODULE Spec2Model ----
(***************************************************************************)
(* Task Management API (task-management-api/app): the tasks, tags and      *)
(* task_tags tables, the five request handlers of app/api/tasks.py and     *)
(* the tag resolver get_or_create_tags.                                    *)
(*                                                                         *)
(* Optional values (Python None / a value) are sequences of length at most *)
(* one: None == <<>>, Some(v) == <<v>>.  Strings that the code inspects    *)
(* character by character (tag names, the tags query parameter) are        *)
(* sequences of one-character strings.                                     *)
(***************************************************************************)
EXTENDS Integers, Sequences, FiniteSets, TLC

VARIABLES
    tasks,      \* table tasks: sequence of rows, row id = index
    tags,       \* table tags: sequence of names, row id = index
    task_tags,  \* table task_tags: set of <<task_id, tag_id>>
    now,        \* the server clock (utc_now), in ticks
    writes,     \* number of committed POST and PATCH requests so far
    budget,     \* number of committed POST and PATCH requests a run may make
    txn,        \* per worker: the request it is handling and its open transaction
    resp        \* the last request and its response

vars == <<tasks, tags, task_tags, now, writes, budget, txn, resp>>

-----------------------------------------------------------------------------
(* Bounds of the model *)

MaxTasks == 2
MaxClock == 1
MaxWrites == 2
MaxQueryWrites == 3
MaxConcWrites == 3
MaxWorkers == 2

(* Program constants *)

MinPriority == 1
MaxPriority == 5
MaxTitleLen == 200
MinLimit == 1
MaxLimit == 100

(* One calendar day is TicksPerDay clock ticks *)
TicksPerDay == 2

-----------------------------------------------------------------------------
(* Optional values *)

None == <<>>
Some(v) == <<v>>
IsNone(o) == o = <<>>
Val(o) == o[1]

-----------------------------------------------------------------------------
(* Strings as character sequences: str.strip(), str.lower(), str.split *)

IsSpace(c) == c = " "

RECURSIVE LStrip(_)
LStrip(s) ==
    IF s = <<>> THEN <<>>
    ELSE IF IsSpace(Head(s)) THEN LStrip(Tail(s)) ELSE s

RECURSIVE RStrip(_)
RStrip(s) ==
    IF s = <<>> THEN <<>>
    ELSE IF IsSpace(s[Len(s)]) THEN RStrip(SubSeq(s, 1, Len(s) - 1)) ELSE s

Strip(s) == RStrip(LStrip(s))

LowerChar(c) ==
    CASE c = "W" -> "w"
      [] c = "K" -> "k"
      [] c = "U" -> "u"
      [] c = "R" -> "r"
      [] OTHER -> c

Lower(s) == [i \in 1..Len(s) |-> LowerChar(s[i])]

(* name.strip().lower(), api/tasks.py:21 *)
Normalize(s) == Lower(Strip(s))

(* s.split(","): the pieces between commas, empty pieces kept *)
RECURSIVE SplitFrom(_, _, _)
SplitFrom(s, i, cur) ==
    IF i > Len(s) THEN <<cur>>
    ELSE IF s[i] = "," THEN <<cur>> \o SplitFrom(s, i + 1, <<>>)
    ELSE SplitFrom(s, i + 1, Append(cur, s[i]))

Split(s) == SplitFrom(s, 1, <<>>)

Range(f) == {f[i] : i \in DOMAIN f}

NoDuplicates(s) == \A i, j \in DOMAIN s : s[i] = s[j] => i = j

Min(a, b) == IF a <= b THEN a ELSE b
Max(a, b) == IF a >= b THEN a ELSE b

(* The elements of a finite set of integers in ascending order *)
RECURSIVE Ascending(_)
Ascending(S) ==
    IF S = {} THEN <<>>
    ELSE LET m == CHOOSE x \in S : \A y \in S : x <= y
         IN <<m>> \o Ascending(S \ {m})

-----------------------------------------------------------------------------
(* The calendar date of a clock value: date.today() *)
DateOf(t) == t \div TicksPerDay
Today == DateOf(now)

-----------------------------------------------------------------------------
(* Request schemas, schemas/task.py *)

(* A field of a PATCH body: not sent, or sent with an optional value *)
Unset == <<>>
Sent(o) == <<o>>
IsSent(x) == x # <<>>
SentVal(x) == x[1]

UpdateFields == {"title", "description", "priority", "due_date", "completed", "tags"}

TitleOK(t) == Len(t) >= 1 /\ Len(t) <= MaxTitleLen
PriorityOK(p) == p >= MinPriority /\ p <= MaxPriority
(* due_date_not_in_past: v < date.today() is rejected *)
DueDateOK(d) == ~(d < Today)

(* TaskCreate: the fields that fail validation *)
TaskCreateErrors(r) ==
    (IF TitleOK(r.title) THEN {} ELSE {"title"})
    \cup (IF PriorityOK(r.priority) THEN {} ELSE {"priority"})
    \cup (IF DueDateOK(r.due_date) THEN {} ELSE {"due_date"})

(* TaskUpdate: every field Optional; a value that is sent and not None is
   validated as in TaskCreate *)
TaskUpdateErrors(p) ==
    (IF IsSent(p.title) /\ ~IsNone(SentVal(p.title))
          /\ ~TitleOK(Val(SentVal(p.title))) THEN {"title"} ELSE {})
    \cup (IF IsSent(p.priority) /\ ~IsNone(SentVal(p.priority))
          /\ ~PriorityOK(Val(SentVal(p.priority))) THEN {"priority"} ELSE {})
    \cup (IF IsSent(p.due_date) /\ ~IsNone(SentVal(p.due_date))
          /\ ~DueDateOK(Val(SentVal(p.due_date))) THEN {"due_date"} ELSE {})

(* list_tasks Query(...) constraints *)
ListQueryErrors(q) ==
    (IF ~IsNone(q.priority) /\ ~PriorityOK(Val(q.priority)) THEN {"priority"} ELSE {})
    \cup (IF q.limit >= MinLimit /\ q.limit <= MaxLimit THEN {} ELSE {"limit"})
    \cup (IF q.offset >= 0 THEN {} ELSE {"offset"})

(* task_data.model_dump(exclude_unset=True): the fields that were sent *)
ModelDumpExcludeUnset(p) == {f \in UpdateFields : IsSent(p[f])}

-----------------------------------------------------------------------------
(* Responses, main.py exception handlers and schemas/task.py *)

(* validation_exception_handler *)
ValidationFailed(fields) ==
    [status |-> 422, body |-> [error |-> "Validation Failed", details |-> fields]]

(* f"Task with id {task_id} not found", in pieces *)
NotFoundMessage(task_id) == <<"Task with id ", task_id, " not found">>

(* HTTPException(404, detail={...}) through http_exception_handler: the detail
   already has the envelope's shape and is returned as it is *)
NotFound(task_id) ==
    [status |-> 404,
     body |-> [error |-> "Not Found",
               details |-> [task_id |-> NotFoundMessage(task_id)]]]

(* An exception no handler catches (IntegrityError at flush or commit) *)
InternalServerError == [status |-> 500, body |-> "Internal Server Error"]

(* The Tag rows of a task, through the relationship Task.tags *)
TagIdsOf(tt, id) == {g \in {r[2] : r \in tt} : <<id, g>> \in tt}

(* TaskResponse.from_orm_with_tags *)
TaskResponseOf(tk, tg, tt, id) ==
    [id |-> id,
     title |-> tk[id].title,
     description |-> tk[id].description,
     priority |-> tk[id].priority,
     due_date |-> tk[id].due_date,
     completed |-> tk[id].completed,
     tags |-> LET ids == Ascending(TagIdsOf(tt, id))
              IN [i \in 1..Len(ids) |-> tg[ids[i]]],
     created_at |-> tk[id].created_at,
     updated_at |-> tk[id].updated_at]

-----------------------------------------------------------------------------
(* Tag resolver, api/tasks.py get_or_create_tags *)

(* db.query(Tag).filter(Tag.name == name).first(): the id of the row, 0 if none *)
FindTag(tbl, name) ==
    IF \E g \in DOMAIN tbl : tbl[g] = name
    THEN CHOOSE g \in DOMAIN tbl : tbl[g] = name /\ \A h \in DOMAIN tbl : tbl[h] = name => g <= h
    ELSE 0

(* The loop over tag_names: the table after the inserts and the list of Tag
   ids appended to `tags`, one per non-blank entry of the input *)
RECURSIVE GetOrCreateTags(_, _)
GetOrCreateTags(tbl, tag_names) ==
    IF tag_names = <<>> THEN [tbl |-> tbl, out |-> <<>>]
    ELSE LET name == Normalize(Head(tag_names)) IN
         IF name = <<>> THEN GetOrCreateTags(tbl, Tail(tag_names))
         ELSE LET found == FindTag(tbl, name)
                  tbl2 == IF found = 0 THEN Append(tbl, name) ELSE tbl
                  tag == IF found = 0 THEN Len(tbl) + 1 ELSE found
                  rest == GetOrCreateTags(tbl2, Tail(tag_names))
              IN [tbl |-> rest.tbl, out |-> <<tag>> \o rest.out]

-----------------------------------------------------------------------------
(* Flush of the relationship Task.tags into task_tags, models/task.py:12-17.
   The unit of work inserts one row per element of the new list that was not
   in the collection before, and deletes the rows of the elements dropped. *)

AssocAdded(old, new) == SelectSeq(new, LAMBDA g : g \notin old)
AssocDeleted(old, new) == old \ Range(new)

(* task_tags has the primary key (task_id, tag_id): inserting the same row
   twice is rejected *)
AssocInsertOK(added) == NoDuplicates(added)

AssocAfter(tt, id, old, new) ==
    (tt \ {<<id, g>> : g \in AssocDeleted(old, new)})
    \cup {<<id, g>> : g \in Range(AssocAdded(old, new))}

(* Python truthiness of an optional list or string: None and empty are falsy *)
Truthy(o) == ~IsNone(o) /\ Val(o) # <<>>

-----------------------------------------------------------------------------
Workers == 1..MaxWorkers

(* A worker that handles no request *)
Idle == [pc |-> "idle", op |-> "none", req |-> <<>>,
         rest |-> <<>>, pending |-> <<>>, out |-> <<>>, snap |-> <<>>]

Init ==
    /\ tasks = <<>>
    /\ tags = <<>>
    /\ task_tags = {}
    /\ now = 0
    /\ writes = 0
    /\ budget = MaxWrites
    /\ txn = [w \in Workers |-> Idle]
    /\ resp = [op |-> "none", req |-> <<>>, status |-> 0, body |-> <<>>]

Reply(op, req, r) == [op |-> op, req |-> req, status |-> r.status, body |-> r.body]

(* create_task from Task(...) to the response, given the result of the tag
   resolver: db.add, db.commit (the INSERTs into tasks and task_tags),
   db.refresh, from_orm_with_tags *)
CreateCommit(r, res) ==
    LET id == Len(tasks) + 1
        row == [title |-> r.title,
                description |-> r.description,
                priority |-> r.priority,
                due_date |-> r.due_date,
                completed |-> FALSE,
                is_deleted |-> FALSE,
                created_at |-> now,
                updated_at |-> now]
    IN IF AssocInsertOK(AssocAdded({}, res.out))
       THEN /\ writes < budget
            /\ Len(tasks) < MaxTasks
            /\ tasks' = Append(tasks, row)
            /\ tags' = res.tbl
            /\ task_tags' = AssocAfter(task_tags, id, {}, res.out)
            /\ writes' = writes + 1
            /\ resp' = Reply("create", r,
                  [status |-> 201,
                   body |-> TaskResponseOf(tasks', tags', task_tags', id)])
       ELSE /\ resp' = Reply("create", r, InternalServerError)
            /\ UNCHANGED <<tasks, tags, task_tags, writes>>

(* POST /tasks, api/tasks.py create_task *)
CreateTask(r) ==
    /\ UNCHANGED <<now, budget, txn>>
    /\ IF TaskCreateErrors(r) # {}
       THEN /\ resp' = Reply("create", r, ValidationFailed(TaskCreateErrors(r)))
            /\ UNCHANGED <<tasks, tags, task_tags, writes>>
       ELSE CreateCommit(r, IF Truthy(r.tags) THEN GetOrCreateTags(tags, Val(r.tags))
                            ELSE [tbl |-> tags, out |-> <<>>])

(* A lookup by id alone *)
FindTaskById(tk, task_id) == task_id \in DOMAIN tk

(* The query of get_task, update_task and delete_task:
   filter(Task.id == task_id, Task.is_deleted == False).first() *)
FindTask(tk, task_id) == task_id \in DOMAIN tk /\ ~tk[task_id].is_deleted

(* GET /tasks/{task_id}, api/tasks.py get_task *)
GetTask(task_id) ==
    /\ resp' = Reply("get", [id |-> task_id],
                     IF FindTask(tasks, task_id)
                     THEN [status |-> 200,
                           body |-> TaskResponseOf(tasks, tags, task_tags, task_id)]
                     ELSE NotFound(task_id))
    /\ UNCHANGED <<tasks, tags, task_tags, now, writes, budget, txn>>

(* The loop over update_data of update_task: the column values after the
   setattr calls, each an optional value (None where null was sent) *)
SetAttrs(old, p) ==
    [title |-> IF IsSent(p.title) THEN SentVal(p.title) ELSE Some(old.title),
     description |-> IF IsSent(p.description) THEN SentVal(p.description)
                     ELSE old.description,
     priority |-> IF IsSent(p.priority) THEN SentVal(p.priority)
                  ELSE Some(old.priority),
     due_date |-> IF IsSent(p.due_date) THEN SentVal(p.due_date)
                  ELSE Some(old.due_date),
     completed |-> IF IsSent(p.completed) THEN SentVal(p.completed)
                   ELSE Some(old.completed)]

(* `if field == "tags": if value is not None:` -- the tag set is assigned *)
AssignsTags(p) == "tags" \in ModelDumpExcludeUnset(p) /\ ~IsNone(SentVal(p.tags))

(* A handler that adds the resolved tags to the collection it has *)
ExtendTags(old, resolved) ==
    Ascending(old) \o SelectSeq(resolved, LAMBDA g : g \notin old)

(* task.tags = get_or_create_tags(db, value): the collection is replaced by
   the resolved list *)
AssignTags(old, resolved) == resolved

(* Columns declared nullable=False, models/task.py:33-37 *)
NotNullOK(pend) ==
    /\ ~IsNone(pend.title)
    /\ ~IsNone(pend.priority)
    /\ ~IsNone(pend.due_date)
    /\ ~IsNone(pend.completed)

(* The UPDATE of the tasks row at commit. The unit of work emits it only when
   a column has a net change, and onupdate=utc_now then sets updated_at. *)
ColumnsChanged(old, pend) ==
    \/ pend.title # Some(old.title)
    \/ pend.description # old.description
    \/ pend.priority # Some(old.priority)
    \/ pend.due_date # Some(old.due_date)
    \/ pend.completed # Some(old.completed)

UpdatedRow(old, pend, t) ==
    [title |-> Val(pend.title),
     description |-> pend.description,
     priority |-> Val(pend.priority),
     due_date |-> Val(pend.due_date),
     completed |-> Val(pend.completed),
     is_deleted |-> old.is_deleted,
     created_at |-> old.created_at,
     updated_at |-> IF ColumnsChanged(old, pend) THEN t ELSE old.updated_at]

(* The row after the UPDATE of the flush: the unit of work writes the columns
   whose value differs from the one it loaded (old); every other column keeps
   the value the table has (cur) *)
MergedRow(cur, old, pend, t) ==
    LET u == UpdatedRow(old, pend, t) IN
    [title |-> IF u.title # old.title THEN u.title ELSE cur.title,
     description |-> IF u.description # old.description THEN u.description
                     ELSE cur.description,
     priority |-> IF u.priority # old.priority THEN u.priority ELSE cur.priority,
     due_date |-> IF u.due_date # old.due_date THEN u.due_date ELSE cur.due_date,
     completed |-> IF u.completed # old.completed THEN u.completed ELSE cur.completed,
     is_deleted |-> cur.is_deleted,
     created_at |-> cur.created_at,
     updated_at |-> IF ColumnsChanged(old, pend) THEN t ELSE cur.updated_at]

(* update_task from the setattr loop to the response, given the result of
   the tag resolver when the payload assigns tags, and the task as the query
   of line 108 loaded it (old, with its tags oldTags: the relationship is
   lazy="joined"): the assignments, db.commit (the UPDATE of the row, the
   DELETEs and INSERTs of task_tags), db.refresh, from_orm_with_tags.
   An INSERT of a row that task_tags holds meanwhile is rejected by the
   primary key.  A DELETE that finds its row gone is an error (StaleDataError)
   where the driver reports row counts (strict), and passes unnoticed where it
   does not. *)
UpdateFlush(task_id, p, got, old, oldTags, strict) ==
    LET rq == [id |-> task_id, data |-> p]
        pend == SetAttrs(old, p)
        res == [tbl |-> got.tbl,
                out |-> IF AssignsTags(p) THEN AssignTags(oldTags, got.out)
                        ELSE Ascending(oldTags)]
        added == AssocAdded(oldTags, res.out)
        deleted == AssocDeleted(oldTags, res.out)
    IN IF /\ NotNullOK(pend)
          /\ AssocInsertOK(added)
          /\ \A g \in Range(added) : <<task_id, g>> \notin task_tags
          /\ strict => \A g \in deleted : <<task_id, g>> \in task_tags
       THEN /\ writes < budget
            /\ tasks' = [tasks EXCEPT ![task_id] =
                            MergedRow(tasks[task_id], old, pend, now)]
            /\ tags' = res.tbl
            /\ task_tags' = AssocAfter(task_tags, task_id, oldTags, res.out)
            /\ writes' = writes + 1
            /\ resp' = Reply("update", rq,
                  [status |-> 200,
                   body |-> TaskResponseOf(tasks', tags', task_tags', task_id)])
       ELSE /\ resp' = Reply("update", rq, InternalServerError)
            /\ UNCHANGED <<tasks, tags, task_tags, writes>>

(* update_task after the lookup, with no other request between the lookup
   and the commit *)
UpdateCommit(task_id, p, got) ==
    UpdateFlush(task_id, p, got, tasks[task_id], TagIdsOf(task_tags, task_id), TRUE)

(* PATCH /tasks/{task_id}, api/tasks.py update_task *)
UpdateTask(task_id, p) ==
    /\ UNCHANGED <<now, budget, txn>>
    /\ LET rq == [id |-> task_id, data |-> p] IN
       IF TaskUpdateErrors(p) # {}
       THEN /\ resp' = Reply("update", rq, ValidationFailed(TaskUpdateErrors(p)))
            /\ UNCHANGED <<tasks, tags, task_tags, writes>>
       ELSE IF ~FindTask(tasks, task_id)
       THEN /\ resp' = Reply("update", rq, NotFound(task_id))
            /\ UNCHANGED <<tasks, tags, task_tags, writes>>
       ELSE UpdateCommit(task_id, p,
                IF AssignsTags(p) THEN GetOrCreateTags(tags, Val(SentVal(p.tags)))
                ELSE [tbl |-> tags, out |-> <<>>])

(* task.is_deleted = True and the UPDATE it causes at commit *)
SoftDeleted(old, t) == [old EXCEPT !.is_deleted = TRUE, !.updated_at = t]

(* A delete handler that looks the task up by id alone and flips the flag *)
DeleteTaskToggle(task_id) ==
    /\ UNCHANGED <<now, tags, task_tags, writes, budget, txn>>
    /\ IF task_id \notin DOMAIN tasks
       THEN /\ resp' = Reply("delete", [id |-> task_id], NotFound(task_id))
            /\ UNCHANGED tasks
       ELSE /\ tasks' = [tasks EXCEPT ![task_id].is_deleted = ~@,
                                      ![task_id].updated_at = now]
            /\ resp' = Reply("delete", [id |-> task_id], [status |-> 204, body |-> <<>>])

(* DELETE /tasks/{task_id}, api/tasks.py delete_task *)
DeleteTask(task_id) ==
    /\ UNCHANGED <<now, tags, task_tags, budget, txn>>
    /\ IF ~FindTask(tasks, task_id)
       THEN /\ resp' = Reply("delete", [id |-> task_id], NotFound(task_id))
            /\ UNCHANGED <<tasks, writes>>
       ELSE /\ tasks' = [tasks EXCEPT ![task_id] = SoftDeleted(tasks[task_id], now)]
            /\ UNCHANGED writes
            /\ resp' = Reply("delete", [id |-> task_id], [status |-> 204, body |-> <<>>])

-----------------------------------------------------------------------------
(* GET /tasks, api/tasks.py list_tasks *)

(* [t.strip().lower() for t in tags.split(",") if t.strip()] *)
TagNames(s) ==
    LET parts == SelectSeq(Split(s), LAMBDA t : Strip(t) # <<>>)
    IN [i \in 1..Len(parts) |-> Normalize(parts[i])]

(* `if tags:` and `if tag_names:` -- the join on the tag names is applied *)
TagFilterApplied(q) == Truthy(q.tags) /\ TagNames(Val(q.tags)) # <<>>

(* The completed and priority filters without the is_deleted filter *)
FilteredTasksAnyFlag(tk, q) ==
    {i \in DOMAIN tk :
        /\ (~IsNone(q.completed) => tk[i].completed = Val(q.completed))
        /\ (~IsNone(q.priority) => tk[i].priority = Val(q.priority))}

(* filter(Task.is_deleted == False) and the completed and priority filters *)
FilteredTasks(tk, q) ==
    {i \in DOMAIN tk :
        /\ ~tk[i].is_deleted
        /\ (~IsNone(q.completed) => tk[i].completed = Val(q.completed))
        /\ (~IsNone(q.priority) => tk[i].priority = Val(q.priority))}

(* The rows of the query before DISTINCT: one per task, or with
   join(Task.tags).filter(Tag.name.in_(tag_names)) one per matching
   (task, tag) pair. A row is <<task id, tag id>>, tag id 0 without the join. *)
QueryRows(tk, tg, tt, q) ==
    IF TagFilterApplied(q)
    THEN {r \in tt : r[1] \in FilteredTasks(tk, q)
                     /\ tg[r[2]] \in Range(TagNames(Val(q.tags)))}
    ELSE {<<i, 0>> : i \in FilteredTasks(tk, q)}

(* .distinct() over the Task columns: one row per task *)
DistinctTasks(rows) == {r[1] : r \in rows}

(* A count of the joined rows, without DISTINCT *)
QueryCountRows(tk, tg, tt, q) == Cardinality(QueryRows(tk, tg, tt, q))

(* query.count() *)
QueryCount(tk, tg, tt, q) == Cardinality(DistinctTasks(QueryRows(tk, tg, tt, q)))

(* order_by(Task.created_at.desc()): every order of the rows the database may
   return, rows of equal created_at in any relative order *)
CreatedAtDescOrders(tk, S) ==
    {o \in [1..Cardinality(S) -> S] :
        /\ \A i, j \in DOMAIN o : o[i] = o[j] => i = j
        /\ \A i, j \in DOMAIN o : i < j => tk[o[i]].created_at >= tk[o[j]].created_at}

(* A page that starts one row late *)
OffsetLimitLate(o, offset, limit) ==
    SubSeq(o, offset + 2, Min(offset + 1 + limit, Len(o)))

(* .offset(offset).limit(limit) *)
OffsetLimit(o, offset, limit) == SubSeq(o, offset + 1, Min(offset + limit, Len(o)))

ListTasks(q) ==
    /\ UNCHANGED <<tasks, tags, task_tags, now, writes, budget, txn>>
    /\ IF ListQueryErrors(q) # {}
       THEN resp' = Reply("list", q, ValidationFailed(ListQueryErrors(q)))
       ELSE \E o \in CreatedAtDescOrders(tasks,
                        DistinctTasks(QueryRows(tasks, tags, task_tags, q))) :
              LET page == OffsetLimit(o, q.offset, q.limit) IN
              resp' = Reply("list", q,
                  [status |-> 200,
                   body |-> [total |-> QueryCount(tasks, tags, task_tags, q),
                             limit |-> q.limit,
                             offset |-> q.offset,
                             tasks |-> [i \in 1..Len(page) |->
                                 TaskResponseOf(tasks, tags, task_tags, page[i])]]])

Tick ==
    /\ now < MaxClock
    /\ now' = now + 1
    /\ UNCHANGED <<tasks, tags, task_tags, writes, budget, txn, resp>>

-----------------------------------------------------------------------------
(* Inputs *)

(* Raw tag names: "Wk", "wk ", " ur ", " " *)
Wk == <<"W", "k">>
WkSp == <<"w", "k", " ">>
Ur == <<" ", "u", "r", " ">>
Blank == <<" ">>

TaskIds == 1..(MaxTasks + 1)

(* POST bodies: the valid ones, and one per validation rule that fails *)
CreateRequests ==
    [title : {"A"},
     description : {Some("B")},
     priority : {3},
     due_date : {0},
     tags : {None, Some(<<>>), Some(<<Wk, Ur>>), Some(<<Wk, WkSp>>),
             Some(<<Blank, Ur>>)}]
    \cup {[title |-> "A", description |-> None, priority |-> 1, due_date |-> 1,
           tags |-> None],
          [title |-> "", description |-> None, priority |-> 3, due_date |-> 0,
           tags |-> Some(<<Wk>>)],
          [title |-> "A", description |-> None, priority |-> 0, due_date |-> 0,
           tags |-> Some(<<Wk>>)],
          [title |-> "A", description |-> None, priority |-> 6, due_date |-> -1,
           tags |-> Some(<<Wk>>)]}

NothingSent ==
    [title |-> Unset, description |-> Unset, priority |-> Unset,
     due_date |-> Unset, completed |-> Unset, tags |-> Unset]

(* PATCH bodies: every subset of the six fields with a value each, and
   bodies of one field with null, empty, repeated or invalid values *)
UpdateRequests ==
    [title : {Unset, Sent(Some("C"))},
     description : {Unset, Sent(Some("D"))},
     priority : {Unset, Sent(Some(5))},
     due_date : {Unset, Sent(Some(1))},
     completed : {Unset, Sent(Some(TRUE))},
     tags : {Unset, Sent(Some(<<Wk, Ur>>))}]
    \cup {[NothingSent EXCEPT !.title = Sent(None)],
          [NothingSent EXCEPT !.description = Sent(None)],
          [NothingSent EXCEPT !.priority = Sent(None)],
          [NothingSent EXCEPT !.due_date = Sent(None)],
          [NothingSent EXCEPT !.completed = Sent(None)],
          [NothingSent EXCEPT !.priority = Sent(Some(6))],
          [NothingSent EXCEPT !.completed = Sent(Some(FALSE))],
          [NothingSent EXCEPT !.tags = Sent(None)],
          [NothingSent EXCEPT !.tags = Sent(Some(<<>>))],
          [NothingSent EXCEPT !.tags = Sent(Some(<<Wk, WkSp>>))],
          [NothingSent EXCEPT !.tags = Sent(Some(<<WkSp>>))],
          [NothingSent EXCEPT !.tags = Sent(Some(<<Blank>>)), !.title = Sent(Some("C"))]}

(* PATCH bodies sent to an id that names no visible task *)
FewUpdateRequests ==
    {[NothingSent EXCEPT !.title = Sent(Some("C"))],
     [NothingSent EXCEPT !.tags = Sent(Some(<<Wk, Ur>>)), !.completed = Sent(Some(TRUE))],
     [NothingSent EXCEPT !.priority = Sent(Some(6))]}

UpdateRequestsFor(task_id) ==
    IF FindTask(tasks, task_id) THEN UpdateRequests ELSE FewUpdateRequests

(* The tags query parameter: "Wk, ur", "wk", " , " *)
ListTagParams ==
    {None, Some(<<"W", "k", ",", " ", "u", "r">>), Some(<<"w", "k">>),
     Some(<<" ", ",", " ">>)}

(* limit and offset *)
ListPages == {<<1, 0>>, <<1, 1>>, <<2, 0>>}

ListQueries ==
    {[completed |-> c, priority |-> pr, tags |-> t, limit |-> pg[1], offset |-> pg[2]] :
        c \in {None, Some(TRUE), Some(FALSE)}, pr \in {None, Some(5)},
        t \in ListTagParams, pg \in ListPages}

(* A few list requests for the specification of the command handlers *)
FewListQueries ==
    {[completed |-> None, priority |-> None, tags |-> None, limit |-> 2, offset |-> 0],
     [completed |-> None, priority |-> None, tags |-> Some(<<"u", "r">>),
      limit |-> 1, offset |-> 0],
     [completed |-> None, priority |-> Some(9), tags |-> None, limit |-> 0, offset |-> 0]}

(* Reads leave the tables alone, so every state a read can produce is produced
   by a read that follows a write or a tick. A read that follows a read is
   issued only as the next page of the list before it. *)
LastWasRead == resp.op \in {"get", "list"}

NextPage ==
    IF resp.op = "list" /\ resp.status = 200
          /\ resp.req.offset + resp.req.limit <= MaxTasks
    THEN {[resp.req EXCEPT !.offset = @ + resp.req.limit]}
    ELSE {}

(* The API, one request at a time, with the full sets of write requests *)
Next ==
    \/ \E r \in CreateRequests : CreateTask(r)
    \/ ~LastWasRead /\ \E id \in TaskIds : GetTask(id)
    \/ \E id \in TaskIds : \E p \in UpdateRequestsFor(id) : UpdateTask(id, p)
    \/ \E id \in TaskIds : DeleteTask(id)
    \/ ~LastWasRead /\ \E q \in FewListQueries : ListTasks(q)
    \/ \E q \in NextPage : ListTasks(q)
    \/ Tick

Spec == Init /\ [][Next]_vars

(* Write requests for the specification of the queries: tasks that differ in
   priority, completed and tags *)
QueryCreateRequests ==
    {[title |-> "A", description |-> Some("B"), priority |-> 3, due_date |-> 0,
      tags |-> None],
     [title |-> "A", description |-> Some("B"), priority |-> 5, due_date |-> 0,
      tags |-> Some(<<Wk, Ur>>)],
     [title |-> "A", description |-> Some("B"), priority |-> 5, due_date |-> 0,
      tags |-> Some(<<Ur>>)]}

QueryUpdateRequests ==
    {[NothingSent EXCEPT !.completed = Sent(Some(TRUE))]}

InitQuery ==
    /\ tasks = <<>>
    /\ tags = <<>>
    /\ task_tags = {}
    /\ now = 0
    /\ writes = 0
    /\ budget = MaxQueryWrites
    /\ txn = [w \in Workers |-> Idle]
    /\ resp = [op |-> "none", req |-> <<>>, status |-> 0, body |-> <<>>]

(* The API, one request at a time, with the full set of list requests *)
NextQuery ==
    \/ \E r \in QueryCreateRequests : CreateTask(r)
    \/ ~LastWasRead /\ \E id \in TaskIds : GetTask(id)
    \/ \E id \in TaskIds, p \in QueryUpdateRequests : UpdateTask(id, p)
    \/ \E id \in TaskIds : DeleteTask(id)
    \/ ~LastWasRead /\ \E q \in ListQueries : ListTasks(q)
    \/ \E q \in NextPage : ListTasks(q)
    \/ Tick

SpecQuery == InitQuery /\ [][NextQuery]_vars

-----------------------------------------------------------------------------
(* Requests handled concurrently.  Every request has its own session
   (core/database.py get_db) and so its own transaction; a handler runs
   statement by statement, and between two statements of one worker the other
   workers may run.  The tag resolver is one SELECT per name and, when the
   SELECT finds no row, one INSERT (db.add, db.flush) into a table whose name
   column carries a unique index (models/task.py:24).  The database is
   PostgreSQL at its default isolation level: a statement sees the rows
   committed before it and the rows of its own transaction; an INSERT of a
   name that a committed row holds fails on the unique index; an INSERT of a
   name that a row of another open transaction holds waits for that
   transaction to end.  A tag row gets its place in `tags` at commit. *)

(* The rows of tags that open transactions have inserted *)
PendingRows(S) == UNION {Range(txn[w].pending) : w \in S}

(* An INSERT into tags ignoring the unique index *)
NoUniqueIndex(name) == FALSE

(* unique=True on Tag.name: the INSERT of a name that a committed row holds
   raises IntegrityError *)
UniqueViolation(name) == name \in Range(tags)

(* unique=True on Tag.name: the INSERT waits while a row of another open
   transaction holds the name *)
WaitsFor(w, name) == {v \in Workers \ {w} : name \in Range(txn[v].pending)}

InFlight == {w \in Workers : txn[w].pc # "idle"}

(* The worker after the resolver has dealt with the first remaining name *)
Advance(t) ==
    [t EXCEPT !.rest = Tail(@),
              !.pc = IF Tail(t.rest) = <<>> THEN "commit" ELSE "select"]

(* create_task up to the call of the resolver *)
BeginCreate(w, r) ==
    /\ txn[w].pc = "idle"
    /\ TaskCreateErrors(r) = {}
    /\ writes + Cardinality(InFlight) < budget
    /\ Len(tasks) + Cardinality({v \in InFlight : txn[v].op = "create"}) < MaxTasks
    /\ txn' = [txn EXCEPT ![w] =
                 [pc |-> IF Truthy(r.tags) THEN "select" ELSE "commit",
                  op |-> "create", req |-> r,
                  rest |-> IF Truthy(r.tags) THEN Val(r.tags) ELSE <<>>,
                  pending |-> <<>>, out |-> <<>>, snap |-> <<>>]]
    /\ UNCHANGED <<tasks, tags, task_tags, now, writes, budget, resp>>

(* update_task up to the call of the resolver, for a body that assigns tags:
   the query of line 108 loads the row and, in the same statement, its tags *)
BeginUpdate(w, task_id, p) ==
    /\ txn[w].pc = "idle"
    /\ TaskUpdateErrors(p) = {}
    /\ AssignsTags(p)
    /\ writes + Cardinality(InFlight) < budget
    /\ IF ~FindTask(tasks, task_id)
       THEN /\ resp' = Reply("update", [id |-> task_id, data |-> p], NotFound(task_id))
            /\ UNCHANGED txn
       ELSE /\ txn' = [txn EXCEPT ![w] =
                        [pc |-> IF Val(SentVal(p.tags)) = <<>> THEN "commit" ELSE "select",
                         op |-> "update", req |-> [id |-> task_id, data |-> p],
                         rest |-> Val(SentVal(p.tags)),
                         pending |-> <<>>, out |-> <<>>,
                         snap |-> [row |-> tasks[task_id],
                                   tags |-> TagIdsOf(task_tags, task_id)]]]
            /\ UNCHANGED resp
    /\ UNCHANGED <<tasks, tags, task_tags, now, writes, budget>>

(* get_or_create_tags, one turn of the loop up to the SELECT: a blank name is
   skipped, a name that has a row is appended to the result *)
SelectTag(w) ==
    /\ txn[w].pc = "select"
    /\ LET t == txn[w]
           name == Normalize(Head(t.rest))
       IN txn' = [txn EXCEPT ![w] =
                    IF name = <<>> THEN Advance(t)
                    ELSE IF name \in Range(tags) \cup Range(t.pending)
                    THEN Advance([t EXCEPT !.out = Append(@, name)])
                    ELSE [t EXCEPT !.pc = "insert"]]
    /\ UNCHANGED <<tasks, tags, task_tags, now, writes, budget, resp>>

(* get_or_create_tags, db.add(tag); db.flush(): the INSERT.  On
   IntegrityError the request ends with 500 and get_db closes the session,
   which rolls the transaction back *)
InsertTag(w) ==
    /\ txn[w].pc = "insert"
    /\ LET t == txn[w]
           name == Normalize(Head(t.rest))
       IN IF UniqueViolation(name)
          THEN /\ txn' = [txn EXCEPT ![w] = Idle]
               /\ resp' = Reply(t.op, t.req, InternalServerError)
          ELSE /\ WaitsFor(w, name) = {}
               /\ txn' = [txn EXCEPT ![w] =
                            Advance([t EXCEPT !.pending = Append(@, name),
                                              !.out = Append(@, name)])]
               /\ UNCHANGED resp
    /\ UNCHANGED <<tasks, tags, task_tags, now, writes, budget>>

(* Two INSERTs that wait for each other: the database ends one of the two
   transactions with an error *)
DeadlockAbort(w) ==
    /\ txn[w].pc = "insert"
    /\ \E v \in WaitsFor(w, Normalize(Head(txn[w].rest))) :
          /\ txn[v].pc = "insert"
          /\ w \in WaitsFor(v, Normalize(Head(txn[v].rest)))
    /\ txn' = [txn EXCEPT ![w] = Idle]
    /\ resp' = Reply(txn[w].op, txn[w].req, InternalServerError)
    /\ UNCHANGED <<tasks, tags, task_tags, now, writes, budget>>

(* The rest of the handler after the resolver: the rows the transaction
   inserted into tags become visible with the commit, or go with the rollback *)
Commit(w) ==
    /\ txn[w].pc = "commit"
    /\ LET t == txn[w]
           tbl == tags \o t.pending
           got == [tbl |-> tbl, out |-> [k \in DOMAIN t.out |-> FindTag(tbl, t.out[k])]]
       IN IF t.op = "create"
          THEN CreateCommit(t.req, got)
          ELSE \E strict \in BOOLEAN :
                 UpdateFlush(t.req.id, t.req.data, got, t.snap.row, t.snap.tags, strict)
    /\ txn' = [txn EXCEPT ![w] = Idle]
    /\ UNCHANGED <<now, budget>>

ConcCreateRequests ==
    {[title |-> "A", description |-> None, priority |-> 3, due_date |-> 0,
      tags |-> tg] : tg \in {None, Some(<<Wk>>), Some(<<WkSp, Ur>>),
                             Some(<<Ur, Wk>>), Some(<<Blank>>)}}

ConcUpdateRequests ==
    {[NothingSent EXCEPT !.tags = Sent(Some(l))] : l \in {<<>>, <<Ur>>, <<Wk, WkSp>>}}
    \cup {[NothingSent EXCEPT !.tags = Sent(Some(<<Wk>>)), !.title = Sent(Some("C"))]}

InitConc ==
    /\ tasks = <<>>
    /\ tags = <<>>
    /\ task_tags = {}
    /\ now = 0
    /\ writes = 0
    /\ budget = MaxConcWrites
    /\ txn = [w \in Workers |-> Idle]
    /\ resp = [op |-> "none", req |-> <<>>, status |-> 0, body |-> <<>>]

(* POST and PATCH requests that run side by side, DELETE, and GET (one
   statement: the row and its tags are read together) *)
NextConc ==
    \/ \E w \in Workers, r \in ConcCreateRequests : BeginCreate(w, r)
    \/ \E w \in Workers, id \in TaskIds, p \in ConcUpdateRequests : BeginUpdate(w, id, p)
    \/ \E w \in Workers : SelectTag(w)
    \/ \E w \in Workers : InsertTag(w)
    \/ \E w \in Workers : DeadlockAbort(w)
    \/ \E w \in Workers : Commit(w)
    \/ \E id \in TaskIds : DeleteTask(id)
    \/ \E id \in TaskIds : GetTask(id)

SpecConc == InitConc /\ [][NextConc]_vars

-----------------------------------------------------------------------------
(* Properties of the command handlers *)

(* The step handles a request (every action but Tick leaves the clock) *)
HandlesRequest(op) == now' = now /\ resp'.op = op

(* The names of a task's tags *)
TagNamesOf(tg, tt, id) == {tg[g] : g \in TagIdsOf(tt, id)}

(* The normalized non-empty names of a list of raw tag names *)
NormalizedNames(list) == {Normalize(list[i]) : i \in DOMAIN list} \ {<<>>}

(* C1: soft delete is terminal -- no step of the API takes a task whose
   is_deleted flag is true to a state where the flag is false or the row is
   gone. *)
SoftDeleteTerminal ==
    [][\A i \in DOMAIN tasks :
          tasks[i].is_deleted => (i \in DOMAIN tasks' /\ tasks'[i].is_deleted)]_vars

(* A PATCH was handled for a task that is soft-deleted *)
SoftDeleteTerminalWitness ==
    /\ resp.op = "update"
    /\ resp.req.id \in DOMAIN tasks
    /\ tasks[resp.req.id].is_deleted

(* C3: a GET, a PATCH or a DELETE on an id that names no task or a
   soft-deleted task leaves the three tables as they were, and answers 404
   with the category "Not Found" and a details.task_id that names the id (a
   PATCH whose body fails validation is answered 422 before the id is looked
   at). *)
NotFoundLeavesStore ==
    [][(/\ now' = now
        /\ resp'.op \in {"get", "update", "delete"}
        /\ ~(resp'.req.id \in DOMAIN tasks /\ ~tasks[resp'.req.id].is_deleted))
       => (/\ tasks' = tasks /\ tags' = tags /\ task_tags' = task_tags
           /\ IF resp'.op = "update" /\ TaskUpdateErrors(resp'.req.data) # {}
              THEN resp'.status = 422
              ELSE /\ resp'.status = 404
                   /\ resp'.body.error = "Not Found"
                   /\ resp'.body.details.task_id[2] = resp'.req.id)]_vars

(* A PATCH carrying tags was answered 404 for a soft-deleted task whose
   requested tags have no row *)
NotFoundLeavesStoreWitness ==
    /\ resp.op = "update" /\ resp.status = 404
    /\ resp.req.id \in DOMAIN tasks /\ tasks[resp.req.id].is_deleted
    /\ AssignsTags(resp.req.data)
    /\ NormalizedNames(Val(SentVal(resp.req.data.tags))) \cap Range(tags) = {}

(* The updatable fields of a task, is_deleted and created_at, as optional
   values; the tag set as the set of its names *)
TaskView(tk, tg, tt, id) ==
    [title |-> Some(tk[id].title),
     description |-> tk[id].description,
     priority |-> Some(tk[id].priority),
     due_date |-> Some(tk[id].due_date),
     completed |-> Some(tk[id].completed),
     tags |-> Some(TagNamesOf(tg, tt, id)),
     is_deleted |-> Some(tk[id].is_deleted),
     created_at |-> Some(tk[id].created_at)]

(* The value a sent field asks for: the value sent, null for a scalar sent as
   null, the normalized names for a tag list, no tags for tags sent as null *)
ValueSent(p, f) ==
    IF f = "tags"
    THEN IF IsNone(SentVal(p.tags)) THEN Some({})
         ELSE Some(NormalizedNames(Val(SentVal(p.tags))))
    ELSE SentVal(p[f])

(* C4: a PATCH of a non-deleted task leaves every field that was not sent as
   it was, and gives every field that was sent the value sent. *)
PartialUpdate ==
    [][(/\ HandlesRequest("update")
        /\ FindTask(tasks, resp'.req.id)
        /\ TaskUpdateErrors(resp'.req.data) = {})
       => LET id == resp'.req.id
              p == resp'.req.data
              before == TaskView(tasks, tags, task_tags, id)
              after == TaskView(tasks', tags', task_tags', id)
          IN /\ \A f \in DOMAIN before :
                  (f \notin UpdateFields \/ ~IsSent(p[f])) => after[f] = before[f]
             /\ \A f \in UpdateFields :
                  IsSent(p[f]) => after[f] = ValueSent(p, f)]_vars

(* The frame half of C4 alone: the fields that were not sent keep their values *)
PartialUpdateFrame ==
    [][(/\ HandlesRequest("update")
        /\ FindTask(tasks, resp'.req.id))
       => LET id == resp'.req.id
              p == resp'.req.data
              before == TaskView(tasks, tags, task_tags, id)
              after == TaskView(tasks', tags', task_tags', id)
          IN \A f \in DOMAIN before :
                  (f \notin UpdateFields \/ ~IsSent(p[f])) => after[f] = before[f]]_vars

(* C5: after a successful PATCH that sends a tag list T, the task's tag set
   is exactly the set of normalized non-empty names of T; the response lists
   the same names. *)
TagsReplaced ==
    [][(/\ HandlesRequest("update")
        /\ resp'.status = 200
        /\ AssignsTags(resp'.req.data))
       => LET T == Val(SentVal(resp'.req.data.tags)) IN
          /\ TagNamesOf(tags', task_tags', resp'.req.id) = NormalizedNames(T)
          /\ Range(resp'.body.tags) = NormalizedNames(T)]_vars

(* A successful PATCH with tags ["wk "] on the only task, which had been
   created with the tag "ur" *)
TagsReplacedWitness ==
    /\ resp.op = "update" /\ resp.status = 200
    /\ Len(tasks) = 1
    /\ resp.req.data.tags = Sent(Some(<<WkSp>>))
    /\ <<"u", "r">> \in Range(tags)
    /\ TagNamesOf(tags, task_tags, 1) = {<<"w", "k">>}

(* C6: a POST that passes validation succeeds whatever its tag list holds,
   the task's tags are the distinct normalized non-empty names of the list,
   and the response names each exactly once. *)
TagRoundTrip ==
    (resp.op = "create" /\ resp.status # 422)
    => /\ resp.status = 201
       /\ NoDuplicates(resp.body.tags)
       /\ Range(resp.body.tags) =
            (IF IsNone(resp.req.tags) THEN {} ELSE NormalizedNames(Val(resp.req.tags)))

-----------------------------------------------------------------------------
(* Properties of the queries *)

Visible == {i \in DOMAIN tasks : ~tasks[i].is_deleted}

ListAnswered == resp.op = "list" /\ resp.status = 200

(* The ids of the tasks of the page of a list response *)
PageIds(r) == [k \in DOMAIN r.body.tasks |-> r.body.tasks[k].id]

ScalarFiltersHold(i, q) ==
    /\ (IsNone(q.completed) \/ tasks[i].completed = Val(q.completed))
    /\ (IsNone(q.priority) \/ tasks[i].priority = Val(q.priority))

(* The normalized non-blank names a tags parameter requests *)
RequestedNames(q) ==
    IF IsNone(q.tags) THEN {} ELSE NormalizedNames(Split(Val(q.tags)))

HasRequestedTag(i, q) ==
    TagNamesOf(tags, task_tags, i) \cap RequestedNames(q) # {}

(* C2: a soft-deleted task is invisible to every read -- a GET for it answers
   404, no list response returns it in its page, and total counts no more than
   the visible tasks that satisfy the completed and priority filters. *)
DeletedInvisible ==
    /\ (resp.op = "get" /\ resp.req.id \in DOMAIN tasks
            /\ tasks[resp.req.id].is_deleted)
       => (resp.status = 404 /\ resp.body.error = "Not Found")
    /\ ListAnswered
       => /\ \A k \in DOMAIN resp.body.tasks :
                resp.body.tasks[k].id \in Visible
          /\ resp.body.total
                <= Cardinality({i \in Visible : ScalarFiltersHold(i, resp.req)})

(* A list filtered by priority 5 and by tags that found nothing, while a
   soft-deleted task has priority 5 and a requested tag *)
DeletedInvisibleWitness ==
    /\ ListAnswered
    /\ resp.req.priority = Some(5)
    /\ ~IsNone(resp.req.tags)
    /\ resp.body.total = 0
    /\ \E i \in DOMAIN tasks :
          tasks[i].is_deleted /\ tasks[i].priority = 5 /\ HasRequestedTag(i, resp.req)

(* C8 as claimed: total is the number of visible tasks t with (completed
   absent or equal) and (priority absent or equal) and (tags absent or t has
   one of the requested normalized names), and no task is twice in the page. *)
ListFilterAsClaimed ==
    ListAnswered
    => /\ resp.body.total =
            Cardinality({i \in Visible :
                /\ ScalarFiltersHold(i, resp.req)
                /\ (IsNone(resp.req.tags) \/ HasRequestedTag(i, resp.req))})
       /\ NoDuplicates(PageIds(resp))

(* The tasks a list request matches: the tag predicate holds also when the
   tags parameter names no non-blank tag *)
Matching(q) ==
    {i \in Visible :
        /\ ScalarFiltersHold(i, q)
        /\ (IsNone(q.tags) \/ RequestedNames(q) = {} \/ HasRequestedTag(i, q))}

(* C8 amended: as claimed, but a tags parameter that names no non-blank tag
   (empty, or only commas and blanks) filters nothing, like an absent one. *)
ListFilterSemantics ==
    ListAnswered
    => /\ resp.body.total = Cardinality(Matching(resp.req))
       /\ NoDuplicates(PageIds(resp))
       /\ Range(PageIds(resp)) \subseteq Matching(resp.req)

(* A list by tags "Wk, ur" answered total 1 while the only visible task has
   both tags, and the task is once in the page *)
ListFilterSemanticsWitness ==
    /\ ListAnswered
    /\ RequestedNames(resp.req) = {<<"w", "k">>, <<"u", "r">>}
    /\ resp.body.total = 1
    /\ Len(resp.body.tasks) = 1
    /\ RequestedNames(resp.req)
          \subseteq TagNamesOf(tags, task_tags, resp.body.tasks[1].id)

(* C9: total is the number of matching tasks whatever limit and offset are;
   the page holds min(limit, max(0, total - offset)) tasks, which are the
   matching tasks at positions offset+1 .. offset+limit of a descending order
   by created_at; beyond the last match the page is empty and the status 200. *)
PaginationResult ==
    ListAnswered
    => LET q == resp.req
           M == Matching(q)
           page == PageIds(resp)
           Newer(i) == {j \in M : tasks[j].created_at > tasks[i].created_at}
           NotOlder(i) == {j \in M : tasks[j].created_at >= tasks[i].created_at}
       IN /\ resp.body.total = Cardinality(M)
          /\ resp.body.limit = q.limit /\ resp.body.offset = q.offset
          /\ Len(page) = Min(q.limit, Max(0, resp.body.total - q.offset))
          /\ NoDuplicates(page)
          /\ Range(page) \subseteq M
          /\ \A k \in DOMAIN page :
                /\ Cardinality(Newer(page[k])) <= q.offset + k - 1
                /\ Cardinality(NotOlder(page[k])) >= q.offset + k
          /\ \A k, l \in DOMAIN page :
                k < l => tasks[page[k]].created_at >= tasks[page[l]].created_at

(* The second page of size 1 of two matching tasks created at different times
   holds the older one *)
PaginationResultWitness ==
    /\ ListAnswered
    /\ resp.req.limit = 1 /\ resp.req.offset = 1
    /\ resp.body.total = 2
    /\ Len(resp.body.tasks) = 1
    /\ \E j \in Matching(resp.req) :
          tasks[j].created_at > resp.body.tasks[1].created_at

(* C10: two list requests with the same filters and the same limit L, the
   second at the offset of the first plus L and with no request between them,
   return pages with no task in common; when the first is at offset 0 and at
   most 2L tasks match, the two pages together hold every matching task. *)
PaginationPartition ==
    [][(/\ ListAnswered
        /\ HandlesRequest("list") /\ resp'.status = 200
        /\ resp'.req = [resp.req EXCEPT !.offset = @ + resp.req.limit])
       => /\ Range(PageIds(resp)) \cap Range(PageIds(resp')) = {}
          /\ (resp.req.offset = 0 /\ resp.body.total <= 2 * resp.req.limit)
             => Range(PageIds(resp)) \cup Range(PageIds(resp'))
                  = Matching(resp.req)]_vars

-----------------------------------------------------------------------------
(* Properties of the tags table *)

(* The rows of tags: the committed ones and those of open transactions *)
TagRows == Range(tags) \cup PendingRows(Workers)

(* C7: at any time no two Tag rows have the same name, every name is
   non-empty and equal to its own strip-and-lowercase normalization, and no
   step removes a committed Tag row -- also when requests that resolve the
   same new name run side by side. *)
TagTableSound ==
    [][/\ NoDuplicates(tags')
       /\ \A v, w \in Workers :
             /\ NoDuplicates(txn'[w].pending)
             /\ Range(txn'[w].pending) \cap Range(tags') = {}
             /\ v # w => Range(txn'[v].pending) \cap Range(txn'[w].pending) = {}
       /\ \A name \in TagRows' :
             name # <<>> /\ Normalize(name) = name
       /\ Len(tags) <= Len(tags')
       /\ SubSeq(tags', 1, Len(tags)) = tags]_vars

(* Two POSTs raced for the new name "wk": one committed the row and got 201,
   the other, which had not seen the row, was refused by the unique index *)
TagTableSoundWitness ==
    /\ resp.status = 500
    /\ resp.op = "create"
    /\ resp.req.tags = Some(<<Wk>>)
    /\ tags = << <<"w", "k">> >>
    /\ Len(tasks) = 1

-----------------------------------------------------------------------------
(* POST /tasks at the boundaries of TaskCreate *)

MaxCreateWrites == 1

(* A string of n letters, built from its two halves *)
RECURSIVE Letters(_)
Letters(n) ==
    IF n = 0 THEN ""
    ELSE IF n = 1 THEN "a"
    ELSE Letters(n \div 2) \o Letters(n - (n \div 2))

(* POST bodies around every limit of TaskCreate: title of length 0, 1,
   MaxTitleLen and MaxTitleLen + 1, priority MinPriority - 1 .. MaxPriority + 1,
   due_date from the day before the first day to the day after the last *)
BoundaryCreateRequests ==
    [title : {"", "A", Letters(MaxTitleLen), Letters(MaxTitleLen + 1)},
     description : {None},
     priority : {MinPriority - 1, MinPriority, MaxPriority, MaxPriority + 1},
     due_date : {-1, 0, 1},
     tags : {None, Some(<<Wk>>), Some(<<Wk, WkSp>>)}]

(* The server starts on the first day or on the day after *)
InitCreate ==
    /\ tasks = <<>>
    /\ tags = <<>>
    /\ task_tags = {}
    /\ now \in {0, TicksPerDay}
    /\ writes = 0
    /\ budget = MaxCreateWrites
    /\ txn = [w \in Workers |-> Idle]
    /\ resp = [op |-> "none", req |-> <<>>, status |-> 0, body |-> <<>>]

NextCreate ==
    \/ \E r \in BoundaryCreateRequests : CreateTask(r)
    \/ \E id \in TaskIds : GetTask(id)
    \/ Tick

SpecCreate == InitCreate /\ [][NextCreate]_vars

(* The fields of a POST body that the rules of the claim reject *)
FieldsOutOfBounds(r) ==
    {f \in {"title", "priority", "due_date"} :
        \/ f = "title" /\ (Len(r.title) = 0 \/ Len(r.title) > 200)
        \/ f = "priority" /\ (r.priority < 1 \/ r.priority > 5)
        \/ f = "due_date" /\ r.due_date < now \div TicksPerDay}

(* A rejected POST: 422, "Validation Failed", every offending field named,
   and the three tables as they were *)
CreateRejected ==
    /\ resp'.status = 422
    /\ resp'.body.error = "Validation Failed"
    /\ FieldsOutOfBounds(resp'.req) \subseteq resp'.body.details
    /\ tasks' = tasks /\ tags' = tags /\ task_tags' = task_tags

(* An accepted POST: 201 and one more task, not completed and not deleted *)
CreateAccepted ==
    /\ resp'.status = 201
    /\ Len(tasks') = Len(tasks) + 1
    /\ SubSeq(tasks', 1, Len(tasks)) = tasks
    /\ tasks'[Len(tasks')].completed = FALSE
    /\ tasks'[Len(tasks')].is_deleted = FALSE
    /\ resp'.body.completed = FALSE

(* C11: a POST with priority outside 1..5, a title that is empty or longer
   than 200 characters, or a due_date before the server's current date is
   rejected with 422 "Validation Failed" naming the field and creates no
   task, tag or association; every other POST is accepted and yields a task
   with completed = false and is_deleted = false. *)
CreateValidation ==
    [][HandlesRequest("create")
       => IF FieldsOutOfBounds(resp'.req) # {} THEN CreateRejected
          ELSE CreateAccepted]_vars

(* The part of C11 that holds: the rejections as claimed, and acceptance of
   every POST within the bounds whose tag list names no tag twice *)
CreateValidationDistinctTags ==
    [][HandlesRequest("create")
       => IF FieldsOutOfBounds(resp'.req) # {} THEN CreateRejected
          ELSE (IsNone(resp'.req.tags)
                \/ Cardinality(NormalizedNames(Val(resp'.req.tags)))
                     = Len(Val(resp'.req.tags)))
               => CreateAccepted]_vars

-----------------------------------------------------------------------------
(* Properties of the timestamps *)

(* The step is a PATCH answered 200 that changed the task: a scalar field,
   the completed flag or the tag set *)
PatchChangedTask ==
    /\ HandlesRequest("update")
    /\ resp'.status = 200
    /\ TaskView(tasks', tags', task_tags', resp'.req.id)
         # TaskView(tasks, tags, task_tags, resp'.req.id)

(* The step is a DELETE answered 204 *)
DeleteSucceeded == HandlesRequest("delete") /\ resp'.status = 204

CreatedAtKept ==
    \A i \in DOMAIN tasks :
        i \in DOMAIN tasks' /\ tasks'[i].created_at = tasks[i].created_at

(* C12: every successful PATCH that changes a task (a scalar field, the
   completed flag, or only its tag set) and every successful soft delete sets
   the task's updated_at to the time of the write; created_at never changes. *)
UpdatedAtRefreshed ==
    [][/\ (PatchChangedTask \/ DeleteSucceeded)
          => tasks'[resp'.req.id].updated_at = now
       /\ CreatedAtKept]_vars

(* The part of C12 that holds: a PATCH that changes a column of the tasks row
   and a soft delete set updated_at to the time of the write, updated_at never
   goes back, and created_at never changes *)
UpdatedAtRefreshedByRowChange ==
    [][/\ ((PatchChangedTask
              /\ [TaskView(tasks', tags', task_tags', resp'.req.id) EXCEPT !.tags = {}]
                   # [TaskView(tasks, tags, task_tags, resp'.req.id) EXCEPT !.tags = {}])
           \/ DeleteSucceeded)
          => tasks'[resp'.req.id].updated_at = now
       /\ \A i \in DOMAIN tasks : tasks'[i].updated_at >= tasks[i].updated_at
       /\ CreatedAtKept]_vars

-----------------------------------------------------------------------------
(* Properties of requests that run side by side *)

(* The tag list of the POST or PATCH that was answered last *)
AnsweredTagList ==
    IF resp.op = "create"
    THEN IF IsNone(resp.req.tags) THEN <<>> ELSE Val(resp.req.tags)
    ELSE IF IsSent(resp.req.data.tags) /\ ~IsNone(SentVal(resp.req.data.tags))
    THEN Val(SentVal(resp.req.data.tags))
    ELSE <<>>

(* C13: when concurrent create or update requests name a tag that does not
   exist yet, the loser of the insert refetches the row and both requests
   complete successfully with their task attached to the single Tag row: a
   POST or PATCH for a visible task whose tag list names no tag twice is never
   answered with an error, and its task carries the tags it named. *)
ConcurrentTagCreation ==
    (/\ resp.op \in {"create", "update"}
     /\ resp.status # 404
     /\ Cardinality(NormalizedNames(AnsweredTagList)) = Len(AnsweredTagList))
    => /\ resp.status \in {200, 201}
       /\ TagNamesOf(tags, task_tags, resp.body.id) = NormalizedNames(AnsweredTagList)

(* The step ends the request of worker w *)
Ends(w) == txn[w].pc # "idle" /\ txn'[w].pc = "idle"

(* The tables change only in the step that commits a request *)
ChangesAtCommitOnly ==
    <<tasks, tags, task_tags>>' # <<tasks, tags, task_tags>>
    => \/ \E w \in Workers :
            /\ txn[w].pc = "commit" /\ Ends(w)
            /\ resp'.status \in {200, 201}
       \/ resp'.op = "delete" /\ resp'.status = 204 /\ txn' = txn

(* A request that fails leaves the tables as they were, with no Tag row it
   had flushed *)
FailureLeavesNothing ==
    \A w \in Workers :
        (Ends(w) /\ resp'.status = 500)
        => /\ <<tasks, tags, task_tags>>' = <<tasks, tags, task_tags>>
           /\ txn'[w].pending = <<>>
           /\ Range(txn[w].pending) \cap Range(tags') = {}

(* A GET shows the committed row and tags and no row of an open transaction *)
ReaderSeesCommitted ==
    (now' = now /\ resp'.op = "get" /\ resp'.status = 200 /\ txn' = txn)
    => /\ resp'.body.title = tasks[resp'.req.id].title
       /\ Range(resp'.body.tags) = TagNamesOf(tags, task_tags, resp'.req.id)
       /\ Range(resp'.body.tags) \cap PendingRows(Workers) = {}

(* C14: create, update and delete each take effect as one transaction: the
   tables change only in the step that commits a request, a request that
   fails leaves no Tag row or association it had flushed, a GET shows
   committed rows only, and once a PATCH that replaces the tags has committed
   a reader sees the task either entirely as before it or entirely as after
   it -- the scalar values sent together with the tag set sent -- never a
   tag list that is neither, nor the new scalars with the old tag set. *)
AtomicWrites ==
    [][/\ ChangesAtCommitOnly
       /\ FailureLeavesNothing
       /\ ReaderSeesCommitted
       /\ \A w \in Workers :
             (Ends(w) /\ txn[w].op = "update" /\ resp'.status = 200)
             => LET id == txn[w].req.id
                    p == txn[w].req.data
                    before == TaskView(tasks, tags, task_tags, id)
                    after == TaskView(tasks', tags', task_tags', id)
                IN \/ after = before
                   \/ /\ \A f \in UpdateFields \ {"tags"} :
                           IsSent(p[f]) => after[f] = SentVal(p[f])
                      /\ IsSent(p.tags) =>
                           Val(after.tags)
                             = NormalizedNames(Val(SentVal(p.tags)))]_vars

(* The part of C14 that holds: every request is one transaction.  The tables
   change only at a commit, and then by all the statements of the request at
   once (the scalar values sent, the task_tags rows added to and removed from
   the tags the request had loaded); a failed request leaves nothing; a GET
   shows committed rows only. *)
TransactionsAtomic ==
    [][/\ ChangesAtCommitOnly
       /\ FailureLeavesNothing
       /\ ReaderSeesCommitted
       /\ \A w \in Workers :
             (Ends(w) /\ txn[w].op = "update" /\ resp'.status = 200)
             => LET id == txn[w].req.id
                    p == txn[w].req.data
                    T == NormalizedNames(Val(SentVal(p.tags)))
                    loaded == {tags[g] : g \in txn[w].snap.tags}
                    after == TaskView(tasks', tags', task_tags', id)
                IN /\ \A f \in UpdateFields \ {"tags"} :
                        IsSent(p[f]) => after[f] = SentVal(p[f])
                   /\ (T \ loaded) \subseteq Val(after.tags)
                   /\ Val(after.tags) \cap (loaded \ T) = {}]_vars

------------------------------------------------------------------------------
(* The field f is in the PATCH body with the value null, or, for tags, with
   the empty list *)
SentNullOrEmpty(p, f) ==
    /\ IsSent(p[f])
    /\ \/ IsNone(SentVal(p[f]))
       \/ f = "tags" /\ Val(SentVal(p[f])) = <<>>

(* C15: a PATCH of a non-deleted task applies every field it carries with the
   value null or empty -- the scalar becomes null, the tag set becomes
   empty -- and leaves every field it omits with its stored value. *)
PresenceAwareMerge ==
    [][(/\ HandlesRequest("update")
        /\ FindTask(tasks, resp'.req.id))
       => LET id == resp'.req.id
              p == resp'.req.data
              before == TaskView(tasks, tags, task_tags, id)
              after == TaskView(tasks', tags', task_tags', id)
          IN \A f \in UpdateFields :
                /\ SentNullOrEmpty(p, f) => after[f] = ValueSent(p, f)
                /\ ~IsSent(p[f]) => after[f] = before[f]]_vars

(* The part of C15 that holds: description sent as null clears the
   description, tags sent as [] clears the tag set, both answered 200, and
   the fields omitted keep their values. *)
PresenceAwareMergeNullable ==
    [][(/\ HandlesRequest("update")
        /\ FindTask(tasks, resp'.req.id))
       => LET id == resp'.req.id
              p == resp'.req.data
              before == TaskView(tasks, tags, task_tags, id)
              after == TaskView(tasks', tags', task_tags', id)
          IN /\ SentNullOrEmpty(p, "description")
                 => resp'.status = 200 /\ after.description = None
             /\ (SentNullOrEmpty(p, "tags") /\ ~IsNone(SentVal(p.tags)))
                 => resp'.status = 200 /\ after.tags = Some({})
             /\ \A f \in UpdateFields :
                   ~IsSent(p[f]) => after[f] = before[f]]_vars

(* What the code does with the other explicit nulls: tags sent as null leaves
   the tag set as it was and answers 200; title, priority, due_date or
   completed sent as null answers 500 and leaves the task as it was. *)
ExplicitNullNotApplied ==
    [][(/\ HandlesRequest("update")
        /\ FindTask(tasks, resp'.req.id))
       => LET id == resp'.req.id
              p == resp'.req.data
              before == TaskView(tasks, tags, task_tags, id)
              after == TaskView(tasks', tags', task_tags', id)
          IN /\ (IsSent(p.tags) /\ IsNone(SentVal(p.tags)))
                 => after.tags = before.tags
             /\ (\E f \in {"title", "priority", "due_date", "completed"} :
                    IsSent(p[f]) /\ IsNone(SentVal(p[f])))
                 => resp'.status = 500 /\ after = before]_vars

====
